---- MODULE Spec2Model ----
(***************************************************************************)
(* Certificate gathering across accounts (holictic.py, aws_helper.py):     *)
(* main validates the target environment, gather_product_certificates      *)
(* walks the account catalog product by product, filters the accounts by   *)
(* display name, creates a management session, fans one                    *)
(* get_certificates_for_account task per account out to a thread pool of   *)
(* five workers, and writes one worksheet per account that has records.    *)
(***************************************************************************)
EXTENDS Integers, Sequences, FiniteSets, TLC

\* ------------------------------------------------------------------ bounds

\* Largest number of certificates one listing call returns in the model.
MaxCerts == 1

\* ThreadPoolExecutor(max_workers=5)
max_workers == 5

\* ------------------------------------------------------------ display names
\* A display name is a sequence of characters, so that lower() and the
\* substring test of the filter are computed, not assumed.

n_prod_billing == <<"p","r","o","d","-","b","i","l","l","i","n","g">>
n_dev_billing  == <<"d","e","v","-","b","i","l","l","i","n","g">>
n_prod_search  == <<"p","r","o","d","-","s","e","a","r","c","h">>
n_dev_search   == <<"d","e","v","-","s","e","a","r","c","h">>
n_shared       == <<"s","h","a","r","e","d">>
n_shared_tools == <<"s","h","a","r","e","d","/","t","o","o","l","s">>
n_DEV_ops      == <<"D","E","V","-","o","p","s">>
n_PROD_web     == <<"P","R","O","D","-","w","e","b">>
n_PreProd      == <<"P","r","e","P","r","o","d">>
n_poc_lab      == <<"p","o","c","-","l","a","b">>
n_Pre_stage    == <<"P","r","e","-","s","t","a","g","e">>
n_prod_a       == <<"p","r","o","d","-","a">>
n_prod_b       == <<"p","r","o","d","-","b">>
n_prod_c       == <<"p","r","o","d","-","c">>
n_prod_d       == <<"p","r","o","d","-","d">>
n_prod_e       == <<"p","r","o","d","-","e">>
n_prod_f       == <<"p","r","o","d","-","f">>
n_dev_a        == <<"d","e","v","-","a">>

m_dev == <<"d","e","v">>
m_pre == <<"p","r","e">>
m_poc == <<"p","o","c">>
m_pro == <<"p","r","o">>

\* str.lower() on the characters the names use
lower_char(c) ==
    CASE c = "D" -> "d" [] c = "E" -> "e" [] c = "V" -> "v"
      [] c = "P" -> "p" [] c = "R" -> "r" [] c = "O" -> "o"
      [] OTHER -> c

lower(s) == [i \in 1..Len(s) |-> lower_char(s[i])]

\* Python's `sub in s` on strings
contains(sub, s) ==
    \E i \in 1..(Len(s) - Len(sub) + 1) : SubSeq(s, i, i + Len(sub) - 1) = sub

\* ------------------------------------------------------------ account filter

\* holictic.py 128-135: the test one account passes to enter filtered_accounts
keep_account_first_only(target_env, account_name) ==
    IF target_env = "pro"
    THEN ~contains(m_dev, lower(account_name))
    ELSE IF target_env \in {"dev", "pre", "poc"}
         THEN ~contains(m_pro, lower(account_name))
         ELSE FALSE

keep_account_case_sensitive(target_env, account_name) ==
    IF target_env = "pro"
    THEN ~\E env \in {m_dev, m_pre, m_poc} : contains(env, account_name)
    ELSE IF target_env \in {"dev", "pre", "poc"}
         THEN ~contains(m_pro, account_name)
         ELSE FALSE

keep_account(target_env, account_name) ==
    IF target_env = "pro"
    THEN ~\E env \in {m_dev, m_pre, m_poc} : contains(env, lower(account_name))
    ELSE IF target_env \in {"dev", "pre", "poc"}
         THEN ~contains(m_pro, lower(account_name))
         ELSE FALSE

\* holictic.py 126-135: accounts is the product's dict, as its items in
\* insertion order, each <<account_id, account_name>>
filter_accounts_skip_first(accounts, target_env) ==
    LET Test(a) == keep_account(target_env, a[2])
    IN  IF accounts = <<>> THEN <<>> ELSE SelectSeq(Tail(accounts), Test)

filter_accounts(accounts, target_env) ==
    LET Test(a) == keep_account(target_env, a[2])
    IN  SelectSeq(accounts, Test)

\* ------------------------------------------------------------ the catalogs

CatBilling ==
    << [product |-> "billing",
        accounts |-> << <<"111", n_prod_billing>>, <<"222", n_dev_billing>> >>] >>

CatMulti ==
    << [product |-> "billing",
        accounts |-> << <<"111", n_prod_billing>>, <<"222", n_dev_billing>> >>],
       [product |-> "ops",
        accounts |-> << <<"333", n_DEV_ops>> >>],
       [product |-> "search",
        accounts |-> << <<"444", n_prod_search>>, <<"555", n_dev_search>>,
                        <<"666", n_shared_tools>> >>] >>

CatWide ==
    << [product |-> "platform",
        accounts |-> << <<"701", n_prod_a>>, <<"702", n_prod_b>>,
                        <<"703", n_prod_c>>, <<"704", n_prod_d>>,
                        <<"705", n_prod_e>>, <<"706", n_prod_f>>,
                        <<"707", n_dev_a>> >>] >>

Catalogs == {CatBilling, CatMulti}

\* What the per-account endpoints can answer in a run: whether
\* sts.assume_role of the read-only role can be refused, whether the
\* certificate listing can raise, and how many certificates it can return.
AnyAnswer == [mint_can_fail |-> TRUE, list_can_fail |-> TRUE,
              counts |-> 0..MaxCerts]

\* the answers tried with the wide catalog, whose product has more accounts
\* than the pool has workers
WideAnswers == {[mint_can_fail |-> TRUE, list_can_fail |-> FALSE, counts |-> {0}]}

\* what sys.argv[1] can hold; "none" is no argument at all
Argvs == {"none", "pro", "dev", "pre", "poc", "staging"}

\* the names the filter is checked on, one account id per name
NamePool ==
    << <<"111", n_prod_billing>>, <<"222", n_dev_billing>>, <<"333", n_DEV_ops>>,
       <<"444", n_PROD_web>>, <<"555", n_PreProd>>, <<"666", n_shared>>,
       <<"777", n_poc_lab>>, <<"888", n_Pre_stage>> >>

RECURSIVE pick(_, _)
\* the entries of seq whose index is in idx, in order
pick(seq, idx) ==
    IF seq = <<>> THEN <<>>
    ELSE LET rest == pick(SubSeq(seq, 1, Len(seq) - 1), idx)
         IN  IF Len(seq) \in idx THEN Append(rest, seq[Len(seq)]) ELSE rest

\* ------------------------------------------------------ credential chaining

\* aws_helper.py 10-33.  sts is what the root client's assume_role does when
\* it is called: "ok" or "denied".  The result says whether the function
\* raised, with what, how many assume_role calls it made and for which case.
create_mgmt_session_default_dev(env, sts) ==
    IF env = "pro"
    THEN [raised |-> sts # "ok", error |-> IF sts = "ok" THEN "none" ELSE "ClientError",
          assume_role_calls |-> 1, role |-> "pro"]
    ELSE [raised |-> sts # "ok", error |-> IF sts = "ok" THEN "none" ELSE "ClientError",
          assume_role_calls |-> 1, role |-> "dev"]

\* create_mgmt_session with a case for each environment main accepts
create_mgmt_session_all_envs(env, sts) ==
    IF env \in {"pro", "dev", "pre", "poc"}
    THEN [raised |-> sts # "ok", error |-> IF sts = "ok" THEN "none" ELSE "ClientError",
          assume_role_calls |-> 1, role |-> env]
    ELSE [raised |-> TRUE, error |-> "ValueError",
          assume_role_calls |-> 0, role |-> "none"]

create_mgmt_session(env, sts) ==
    IF env = "pro"
    THEN [raised |-> sts # "ok", error |-> IF sts = "ok" THEN "none" ELSE "ClientError",
          assume_role_calls |-> 1, role |-> "pro"]
    ELSE IF env = "dev"
    THEN [raised |-> sts # "ok", error |-> IF sts = "ok" THEN "none" ELSE "ClientError",
          assume_role_calls |-> 1, role |-> "dev"]
    ELSE [raised |-> TRUE, error |-> "ValueError",
          assume_role_calls |-> 0, role |-> "none"]

\* aws_helper.py 50-52: the sessions closed once end_session(session) has
\* run; neither holictic.py nor aws_helper.py calls it
end_session(session, closed) == closed \cup {session}

\* the certificate summaries one listing call returns for an account
Certs(account_id, k) == [i \in 1..k |-> <<account_id, i>>]

\* ------------------------------------------------------------------- state

VARIABLES
    pc,                \* where the main thread is
    disk,              \* account_lists.json: whether it loads, and as what
    aws,               \* what the accounts' STS and ACM endpoints can answer
    exit_code,         \* "running", then the process's exit status
    target_env,        \* holictic.py 200
    account_lists,     \* holictic.py 116
    prod,              \* index of the product the for loop of line 122 is at
    filtered_accounts, \* holictic.py 126
    mgmt_session,      \* holictic.py 145: "none" or the role it assumed
    mgmt_calls,        \* one entry per create_mgmt_session call, in order
    ro_calls,          \* <<product index, account id>> of each create_read_only_session call
    futures,           \* future_to_account, in submission order
    work_queue,        \* the executor's queue of future indexes
    num_threads,       \* the executor's worker threads
    workbook,          \* the worksheets of the current product's workbook
    files,             \* the workbooks saved, in order
    report,            \* per finished product: what the loop counted
    refiltered,        \* the filter applied to its own output
    released           \* the sessions end_session has closed

vars == <<pc, disk, aws, exit_code, target_env, account_lists, prod,
          filtered_accounts, mgmt_session, mgmt_calls, ro_calls, futures,
          work_queue, num_threads, workbook, files, report, refiltered, released>>

runVars == <<mgmt_session, mgmt_calls, ro_calls, futures, work_queue,
             num_threads, workbook, files, report>>

NoLine == [kind |-> "none", name |-> <<>>, count |-> 0]

Init ==
    /\ pc = "main"
    /\ \/ /\ disk \in [readable : {TRUE}, content : Catalogs]
                      \cup {[readable |-> FALSE, content |-> <<>>]}
          /\ aws = AnyAnswer
       \/ /\ disk = [readable |-> TRUE, content |-> CatWide]
          /\ aws \in WideAnswers
    /\ exit_code = "running"
    /\ target_env = "unset"
    /\ account_lists = <<>>
    /\ prod = 0
    /\ filtered_accounts = <<>>
    /\ mgmt_session = "none"
    /\ mgmt_calls = <<>>
    /\ ro_calls = {}
    /\ futures = <<>>
    /\ work_queue = <<>>
    /\ num_threads = 0
    /\ workbook = <<>>
    /\ files = <<>>
    /\ report = <<>>
    /\ refiltered = <<>>
    /\ released = {}

\* ------------------------------------------------------------------- main

\* holictic.py 195-207
main ==
    /\ pc = "main"
    /\ \E argv \in Argvs : target_env' = IF argv # "none" THEN argv ELSE "pro"
    /\ IF target_env' \notin {"pro", "dev", "pre", "poc"}
       THEN /\ pc' = "exit"
            /\ exit_code' = 1
       ELSE /\ pc' = "read"
            /\ exit_code' = exit_code
    /\ UNCHANGED <<disk, aws, account_lists, prod, filtered_accounts,
                   refiltered, released>>
    /\ UNCHANGED runVars

\* read_account_lists falling back to a built-in list when the file is bad
read_account_lists_default_catalog ==
    /\ pc = "read"
    /\ account_lists' = IF disk.readable THEN disk.content ELSE CatBilling
    /\ prod' = 1
    /\ pc' = "loop"
    /\ UNCHANGED <<disk, aws, exit_code, target_env, filtered_accounts,
                   refiltered, released>>
    /\ UNCHANGED runVars

\* holictic.py 14-18, 116: json.load raises out of main on a bad file
read_account_lists ==
    /\ pc = "read"
    /\ IF ~disk.readable
       THEN /\ pc' = "exit"
            /\ exit_code' = 1
            /\ UNCHANGED <<account_lists, prod>>
       ELSE /\ account_lists' = disk.content
            /\ prod' = 1
            /\ pc' = "loop"
            /\ exit_code' = exit_code
    /\ UNCHANGED <<disk, aws, target_env, filtered_accounts, refiltered, released>>
    /\ UNCHANGED runVars

\* holictic.py 137-139: whether the product is skipped
skip_product_never(filtered) == FALSE

skip_product(filtered) == filtered = <<>>

\* holictic.py 122-141, 209: the head of the loop, or its end
next_product ==
    /\ pc = "loop"
    /\ IF prod > Len(account_lists)
       THEN /\ pc' = "exit"
            /\ exit_code' = 0
            /\ UNCHANGED <<prod, filtered_accounts>>
       ELSE /\ filtered_accounts' =
                   filter_accounts(account_lists[prod].accounts, target_env)
            /\ IF skip_product(filtered_accounts')
               THEN /\ prod' = prod + 1
                    /\ pc' = "loop"
               ELSE /\ prod' = prod
                    /\ pc' = "mgmt"
            /\ exit_code' = exit_code
    /\ UNCHANGED <<disk, aws, target_env, account_lists, refiltered, released>>
    /\ UNCHANGED runVars

\* holictic.py 146-148: the handler of a failed create_mgmt_session
mgmt_failed_falls_through ==
    /\ pc' = "submit"
    /\ prod' = prod
    /\ workbook' = <<>>
    /\ futures' = <<>>
    /\ work_queue' = <<>>
    /\ num_threads' = 0
    /\ UNCHANGED mgmt_session

mgmt_failed_breaks ==
    /\ pc' = "loop"
    /\ prod' = Len(account_lists) + 1
    /\ UNCHANGED <<mgmt_session, futures, work_queue, num_threads, workbook>>

mgmt_failed ==
    /\ pc' = "loop"
    /\ prod' = prod + 1
    /\ UNCHANGED <<mgmt_session, futures, work_queue, num_threads, workbook>>

\* holictic.py 143-157: the management session, then a fresh workbook and pool
create_mgmt ==
    /\ pc = "mgmt"
    /\ \E sts \in {"ok", "denied"} :
         LET r == create_mgmt_session(target_env, sts) IN
         /\ mgmt_calls' = Append(mgmt_calls,
                [product |-> prod, env |-> target_env, raised |-> r.raised,
                 error |-> r.error, assume_role_calls |-> r.assume_role_calls])
         /\ IF r.raised
            THEN mgmt_failed
            ELSE /\ mgmt_session' = r.role
                 /\ workbook' = <<>>
                 /\ futures' = <<>>
                 /\ work_queue' = <<>>
                 /\ num_threads' = 0
                 /\ prod' = prod
                 /\ pc' = "submit"
    /\ UNCHANGED <<disk, aws, exit_code, target_env, account_lists,
                   filtered_accounts, ro_calls, files, report, refiltered, released>>

\* ------------------------------------------------------------ the workbook

\* the characters openpyxl refuses in a worksheet title (create_sheet,
\* holictic.py 35)
invalid_title(env) ==
    \E i \in 1..Len(env) : env[i] \in {"\\", "*", "?", ":", "/", "[", "]"}

\* holictic.py 21-35: the workbook after write_to_workbook(workbook, data, env);
\* a title already in use gets a numeric suffix
write_to_workbook(wb, data, env) ==
    IF data = <<>> THEN wb
    ELSE Append(wb, [title |-> env,
                     suffix |-> Cardinality({j \in 1..Len(wb) : wb[j].title = env}),
                     rows |-> data])

\* ------------------------------------------------------------ the executor

Running == {i \in 1..Len(futures) : futures[i].state \in {"minting", "listing"}}

\* ThreadPoolExecutor.submit starts a worker thread while no worker is free
\* for the new item and fewer than max_workers exist (holictic.py 157, 160)
threads_after_submit_unbounded(n) ==
    IF n - Cardinality(Running) > Len(work_queue) THEN n ELSE n + 1

threads_after_submit(n) ==
    IF n - Cardinality(Running) > Len(work_queue) THEN n
    ELSE IF n < max_workers THEN n + 1 ELSE n

\* holictic.py 159-168: one executor.submit of the dict comprehension
submit ==
    /\ pc = "submit"
    /\ Len(futures) < Len(filtered_accounts)
    /\ LET i == Len(futures) + 1
           a == filtered_accounts[i]
       IN  /\ futures' = Append(futures,
                  [account_id |-> a[1], account_name |-> a[2],
                   state |-> "pending", error |-> "none", listed |-> <<>>,
                   result |-> <<>>, line |-> NoLine])
           /\ work_queue' = Append(work_queue, i)
           /\ num_threads' = threads_after_submit(num_threads)
           /\ pc' = IF i = Len(filtered_accounts) THEN "collect" ELSE "submit"
    /\ UNCHANGED <<disk, aws, exit_code, target_env, account_lists, prod,
                   filtered_accounts, mgmt_session, mgmt_calls, ro_calls,
                   workbook, files, report, refiltered, released>>

\* a free worker thread takes the oldest queued item
can_start_no_reuse ==
    /\ work_queue # <<>>
    /\ Cardinality({i \in 1..Len(futures) : futures[i].state # "pending"})
           < num_threads

can_start == work_queue # <<>> /\ Cardinality(Running) < num_threads

\* holictic.py 83-85: a worker enters get_certificates_for_account and calls
\* create_read_only_session (aws_helper.py 36-42)
task_start ==
    /\ can_start
    /\ LET i == Head(work_queue) IN
       /\ futures' = [futures EXCEPT ![i].state = "minting"]
       /\ ro_calls' = ro_calls \cup {<<prod, futures[i].account_id>>}
    /\ work_queue' = Tail(work_queue)
    /\ UNCHANGED <<pc, disk, aws, exit_code, target_env, account_lists, prod,
                   filtered_accounts, mgmt_session, mgmt_calls, num_threads,
                   workbook, files, report, refiltered, released>>

\* holictic.py 101-103: what the task returns when anything raised
on_exception(f, where) ==
    [f EXCEPT !.state = "finished", !.error = where,
              !.result = <<f.account_name, <<>> >>]

\* aws_helper.py 39-47 returning to holictic.py 85-91
mint_returns ==
    /\ \E i \in 1..Len(futures) :
         /\ futures[i].state = "minting"
         /\ \E ok \in {TRUE} \cup {~aws.mint_can_fail} :
              futures' = [futures EXCEPT ![i] =
                  IF ok THEN [@ EXCEPT !.state = "listing"]
                  ELSE on_exception(@, "mint")]
    /\ UNCHANGED <<pc, disk, aws, exit_code, target_env, account_lists, prod,
                   filtered_accounts, mgmt_session, mgmt_calls, ro_calls,
                   work_queue, num_threads, workbook, files, report,
                   refiltered, released>>

\* holictic.py 94-99
task_result(f, certificates) ==
    [f EXCEPT !.state = "finished", !.listed = certificates,
              !.result = <<f.account_name, certificates>>]

\* the task writing its own worksheet as soon as its listing has returned
list_returns_writes ==
    /\ \E i \in 1..Len(futures) :
         /\ futures[i].state = "listing"
         /\ \/ \E k \in aws.counts :
                 /\ futures' = [futures EXCEPT ![i] =
                        task_result(@, Certs(@.account_id, k))]
                 /\ workbook' = write_to_workbook(workbook,
                        Certs(futures[i].account_id, k), futures[i].account_name)
            \/ /\ aws.list_can_fail
               /\ futures' = [futures EXCEPT ![i] = on_exception(@, "list")]
               /\ workbook' = workbook
    /\ UNCHANGED <<pc, disk, aws, exit_code, target_env, account_lists, prod,
                   filtered_accounts, mgmt_session, mgmt_calls, ro_calls,
                   work_queue, num_threads, files, report,
                   refiltered, released>>

\* holictic.py 91-103: the paginated listing returns or raises
list_returns ==
    /\ \E i \in 1..Len(futures) :
         /\ futures[i].state = "listing"
         /\ \/ \E k \in aws.counts :
                 futures' = [futures EXCEPT ![i] =
                     task_result(@, Certs(@.account_id, k))]
            \/ /\ aws.list_can_fail
               /\ futures' = [futures EXCEPT ![i] = on_exception(@, "list")]
    /\ UNCHANGED <<pc, disk, aws, exit_code, target_env, account_lists, prod,
                   filtered_accounts, mgmt_session, mgmt_calls, ro_calls,
                   work_queue, num_threads, workbook, files, report,
                   refiltered, released>>

\* ---------------------------------------------------------- the result loop

\* holictic.py 171: as_completed yields every future that is done
yieldable(f) == f.state = "finished"

\* the result loop without its try/except around a failed account
collect_fail_fast ==
    /\ pc = "collect"
    /\ \E i \in 1..Len(futures) :
         /\ yieldable(futures[i])
         /\ IF futures[i].error # "none"
            THEN /\ pc' = "exit"
                 /\ exit_code' = 1
                 /\ UNCHANGED <<futures, workbook>>
            ELSE /\ pc' = pc
                 /\ exit_code' = exit_code
                 /\ workbook' = write_to_workbook(workbook,
                                    futures[i].result[2], futures[i].result[1])
                 /\ futures' = [futures EXCEPT ![i].state = "consumed",
                        ![i].line = [kind |-> IF futures[i].result[2] # <<>>
                                              THEN "certificates"
                                              ELSE "no certificates",
                                     name |-> futures[i].result[1],
                                     count |-> Len(futures[i].result[2])]]
    /\ UNCHANGED <<disk, aws, target_env, account_lists, prod,
                   filtered_accounts, mgmt_session, mgmt_calls, ro_calls,
                   work_queue, num_threads, files, report, refiltered, released>>

\* holictic.py 176-180: what the loop prints for a returned result
result_line_silent(name, certificates) ==
    IF certificates # <<>>
    THEN [kind |-> "certificates", name |-> name, count |-> Len(certificates)]
    ELSE NoLine

result_line(name, certificates) ==
    IF certificates # <<>>
    THEN [kind |-> "certificates", name |-> name, count |-> Len(certificates)]
    ELSE [kind |-> "no certificates", name |-> name, count |-> 0]

\* holictic.py 171-184: one turn of the result loop
collect ==
    /\ pc = "collect"
    /\ \E i \in 1..Len(futures) :
         /\ yieldable(futures[i])
         /\ LET account_name == futures[i].account_name
                account_name_result == futures[i].result[1]
                certificates == futures[i].result[2]
            IN  IF certificates # <<>> /\ invalid_title(account_name_result)
                THEN /\ workbook' = workbook
                     /\ futures' = [futures EXCEPT ![i].state = "consumed",
                            ![i].line = [kind |-> "error",
                                         name |-> account_name,
                                         count |-> 0]]
                ELSE /\ workbook' = IF certificates # <<>>
                                    THEN write_to_workbook(workbook,
                                             certificates, account_name_result)
                                    ELSE workbook
                     /\ futures' = [futures EXCEPT ![i].state = "consumed",
                            ![i].line = result_line(account_name_result,
                                                    certificates)]
    /\ UNCHANGED <<pc, disk, aws, exit_code, target_env, account_lists, prod,
                   filtered_accounts, mgmt_session, mgmt_calls, ro_calls,
                   work_queue, num_threads, files, report, refiltered, released>>

\* holictic.py 171, 185-192: as_completed has yielded every future, the pool
\* shuts down, the workbook is saved if it has a worksheet
loop_done_early == \E i \in 1..Len(futures) : futures[i].state = "consumed"

loop_done == \A i \in 1..Len(futures) : futures[i].state = "consumed"

save_workbook ==
    /\ pc = "collect"
    /\ loop_done
    /\ files' = IF workbook # <<>>
                THEN Append(files, [filename |-> account_lists[prod].product,
                                    sheets |-> workbook])
                ELSE files
    /\ report' = Append(report, [product |-> prod,
                                 accounts |-> filtered_accounts,
                                 futures |-> futures,
                                 workbook |-> workbook])
    /\ prod' = prod + 1
    /\ pc' = "loop"
    /\ UNCHANGED <<disk, aws, exit_code, target_env, account_lists,
                   filtered_accounts, mgmt_session, mgmt_calls, ro_calls,
                   futures, work_queue, num_threads, workbook, refiltered, released>>

Next ==
    \/ main
    \/ read_account_lists
    \/ next_product
    \/ create_mgmt
    \/ submit
    \/ task_start
    \/ mint_returns
    \/ list_returns
    \/ collect
    \/ save_workbook

Spec == Init /\ [][Next]_vars

\* the steps of the main thread, and those of the pool's worker threads
MainThread ==
    \/ main
    \/ read_account_lists
    \/ next_product
    \/ create_mgmt
    \/ submit
    \/ collect
    \/ save_workbook

Workers ==
    \/ task_start
    \/ mint_returns
    \/ list_returns

\* The main thread runs on while it can, the worker threads are scheduled
\* fairly, and every assume_role and listing call returns or raises.
\* Runs start as in Init, the wide catalog being answered without failures.
LiveWideAnswers == {[mint_can_fail |-> FALSE, list_can_fail |-> FALSE,
                     counts |-> {0}]}

LiveInit ==
    /\ pc = "main"
    /\ \/ /\ disk \in [readable : {TRUE}, content : Catalogs]
                      \cup {[readable |-> FALSE, content |-> <<>>]}
          /\ aws = AnyAnswer
       \/ /\ disk = [readable |-> TRUE, content |-> CatWide]
          /\ aws \in LiveWideAnswers
    /\ exit_code = "running"
    /\ target_env = "unset"
    /\ account_lists = <<>>
    /\ prod = 0
    /\ filtered_accounts = <<>>
    /\ mgmt_session = "none"
    /\ mgmt_calls = <<>>
    /\ ro_calls = {}
    /\ futures = <<>>
    /\ work_queue = <<>>
    /\ num_threads = 0
    /\ workbook = <<>>
    /\ files = <<>>
    /\ report = <<>>
    /\ refiltered = <<>>
    /\ released = {}

FairSpec == LiveInit /\ [][Next]_vars /\ WF_vars(MainThread) /\ WF_vars(Workers)

\* ------------------------------------------- the filter, checked on its own

\* gather_product_certificates' filter (holictic.py 126-135) applied to one
\* product drawn from the name pool, for every target_env it can be given
FilterInit ==
    /\ pc = "filter"
    /\ target_env \in {"pro", "dev", "pre", "poc", "staging"}
    /\ \E idx \in SUBSET (1..Len(NamePool)) :
         account_lists = << [product |-> "pool", accounts |-> pick(NamePool, idx)] >>
    /\ disk = [readable |-> TRUE, content |-> account_lists]
    /\ aws = AnyAnswer
    /\ exit_code = "running"
    /\ prod = 1
    /\ filtered_accounts = <<>>
    /\ mgmt_session = "none"
    /\ mgmt_calls = <<>>
    /\ ro_calls = {}
    /\ futures = <<>>
    /\ work_queue = <<>>
    /\ num_threads = 0
    /\ workbook = <<>>
    /\ files = <<>>
    /\ report = <<>>
    /\ refiltered = <<>>
    /\ released = {}

\* holictic.py 126-135 on the product's accounts
filter_once ==
    /\ pc = "filter"
    /\ filtered_accounts' = filter_accounts(account_lists[prod].accounts, target_env)
    /\ pc' = "filtered"
    /\ UNCHANGED <<disk, aws, exit_code, target_env, account_lists, prod,
                   refiltered, released>>
    /\ UNCHANGED runVars

\* holictic.py 126-135 on the mapping it has just produced
filter_again ==
    /\ pc = "filtered"
    /\ refiltered' = filter_accounts(filtered_accounts, target_env)
    /\ pc' = "refiltered"
    /\ UNCHANGED <<disk, aws, exit_code, target_env, account_lists, prod,
                   filtered_accounts, released>>
    /\ UNCHANGED runVars

NextFilter ==
    \/ filter_once
    \/ filter_again

SpecFilter == FilterInit /\ [][NextFilter]_vars

\* ------------------------------------------------------------ properties

Range(seq) == {seq[i] : i \in 1..Len(seq)}

\* C1: for a product with N filtered accounts the result loop records
\* exactly N per-account results, one per submitted task and each tagged
\* with its account's name, whichever tasks failed at credential minting or
\* at the listing call.
C1_OneResultPerAccount ==
    \A k \in 1..Len(report) :
        LET r == report[k] IN
        /\ Len(r.futures) = Len(r.accounts)
        /\ \A i \in 1..Len(r.futures) :
              /\ r.futures[i].state = "consumed"
              /\ r.futures[i].line.kind # "none"
              /\ r.futures[i].line.name = r.accounts[i][2]
              /\ r.futures[i].account_id = r.accounts[i][1]

\* a finished product with two accounts, one failed at minting and the other
\* at the listing call
C1_Witness ==
    \E k \in 1..Len(report) :
        /\ Len(report[k].accounts) = 2
        /\ \E i, j \in 1..Len(report[k].futures) :
              /\ report[k].futures[i].error = "mint"
              /\ report[k].futures[j].error = "list"
              /\ report[k].futures[i].line.kind # "none"
              /\ report[k].futures[j].line.kind # "none"

\* C2: at most max_workers = 5 get_certificates_for_account tasks have
\* started and not yet returned, however many accounts were submitted.
C2_AtMostFiveInFlight == Cardinality(Running) <= 5

\* six accounts submitted, five tasks in flight and the sixth still queued
C2_Witness ==
    /\ Len(futures) = 6
    /\ Cardinality(Running) = 5
    /\ work_queue # <<>>

\* what the result loop shows for an account whose listing returned
\* `listed`, taken by itself
LineFor(name, listed) ==
    IF listed = <<>> THEN [kind |-> "no certificates", name |-> name, count |-> 0]
    ELSE IF invalid_title(name) THEN [kind |-> "error", name |-> name, count |-> 0]
    ELSE [kind |-> "certificates", name |-> name, count |-> Len(listed)]

\* C3: a failed task (minting or listing raised) neither cancels its
\* siblings nor aborts the pool: the run never leaves a product with a
\* submitted task unconsumed, and every task that did not fail returns what
\* its listing returned and is recorded as it would be alone.
C3_FailureIsolated ==
    /\ pc \in {"exit", "loop"} =>
          \A i \in 1..Len(futures) : futures[i].state = "consumed"
    /\ \A k \in 1..Len(report) :
          LET fs == report[k].futures IN
          \A i \in 1..Len(fs) :
              /\ fs[i].state = "consumed"
              /\ fs[i].error = "none" =>
                    /\ fs[i].result = <<fs[i].account_name, fs[i].listed>>
                    /\ fs[i].line = LineFor(fs[i].account_name, fs[i].listed)
                    /\ (fs[i].line.kind = "certificates") =>
                          \E j \in 1..Len(report[k].workbook) :
                              /\ report[k].workbook[j].title = fs[i].account_name
                              /\ report[k].workbook[j].rows = fs[i].listed

\* a finished product where one task failed and a sibling's certificates
\* were written to the workbook
C3_Witness ==
    \E k \in 1..Len(report) :
        \E i, j \in 1..Len(report[k].futures) :
            /\ report[k].futures[i].error # "none"
            /\ report[k].futures[j].error = "none"
            /\ report[k].futures[j].line.kind = "certificates"
            /\ report[k].workbook # <<>>

\* C4: create_mgmt_session is called at most once for the target
\* environment in one run, however many products have accounts to process.
C4_MgmtSessionOncePerRun == Len(mgmt_calls) <= 1

\* C5: create_read_only_session is invoked for an account of a product only
\* after create_mgmt_session has returned a session for that product; when it
\* raised, no read-only credential is minted for any account of the product.
C5_ReadOnlyAfterMgmt ==
    /\ \A c \in ro_calls :
          \E k \in 1..Len(mgmt_calls) :
              mgmt_calls[k].product = c[1] /\ ~mgmt_calls[k].raised
    /\ \A k \in 1..Len(mgmt_calls) :
          mgmt_calls[k].raised =>
              ~\E c \in ro_calls : c[1] = mgmt_calls[k].product
    /\ Running # {} => mgmt_session # "none"

\* the management session failed for one product and a later product's
\* account had its read-only session requested
C5_Witness ==
    \E k \in 1..Len(mgmt_calls) :
        /\ mgmt_calls[k].raised
        /\ \E c \in ro_calls : c[1] > mgmt_calls[k].product

\* the accounts of the product the filter is applied to
ProductAccounts == account_lists[1].accounts

\* name, compared case-insensitively, contains the three-letter marker
HasMarker(name, marker) ==
    \E i \in 1..(Len(name) - 2) :
        \A j \in 1..3 : lower_char(name[i + j - 1]) = marker[j]

NonProduction(a) == \E m \in {m_dev, m_pre, m_poc} : HasMarker(a[2], m)

Production(a) == HasMarker(a[2], m_pro)

\* C6: for target environment 'pro' the filter returns exactly the accounts
\* whose display name contains, case-insensitively, none of 'dev', 'pre',
\* 'poc'; of {"111": "prod-billing", "222": "dev-billing"} it returns
\* {"111": "prod-billing"} only.
C6_ProductionFilter ==
    (pc \in {"filtered", "refiltered"} /\ target_env = "pro") =>
        /\ Range(filtered_accounts) =
               {a \in Range(ProductAccounts) : ~NonProduction(a)}
        /\ Len(filtered_accounts) = Cardinality(Range(filtered_accounts))
        /\ ProductAccounts = << <<"111", n_prod_billing>>, <<"222", n_dev_billing>> >>
              => filtered_accounts = << <<"111", n_prod_billing>> >>

\* the billing product filtered for 'pro'
C6_Witness ==
    /\ pc = "filtered"
    /\ target_env = "pro"
    /\ ProductAccounts = << <<"111", n_prod_billing>>, <<"222", n_dev_billing>> >>
    /\ filtered_accounts = << <<"111", n_prod_billing>> >>

\* C7: for target environment 'dev', 'pre' or 'poc' the filter returns
\* exactly the accounts whose display name does not contain,
\* case-insensitively, 'pro'.
C7_NonProductionFilter ==
    (pc \in {"filtered", "refiltered"} /\ target_env \in {"dev", "pre", "poc"}) =>
        /\ Range(filtered_accounts) =
               {a \in Range(ProductAccounts) : ~Production(a)}
        /\ Len(filtered_accounts) = Cardinality(Range(filtered_accounts))

\* 'poc' applied to a product holding PROD-web and PreProd, both left out,
\* and Pre-stage, kept
C7_Witness ==
    /\ pc = "filtered"
    /\ target_env = "poc"
    /\ {<<"444", n_PROD_web>>, <<"555", n_PreProd>>, <<"888", n_Pre_stage>>}
           \subseteq Range(ProductAccounts)
    /\ <<"888", n_Pre_stage>> \in Range(filtered_accounts)
    /\ <<"444", n_PROD_web>> \notin Range(filtered_accounts)
    /\ <<"555", n_PreProd>> \notin Range(filtered_accounts)

\* C8: the filter is idempotent: applied to its own result with the same
\* target environment it returns that result.
C8_FilterIdempotent ==
    pc = "refiltered" => refiltered = filtered_accounts

\* a product that lost some accounts and kept others, filtered twice
C8_Witness ==
    /\ pc = "refiltered"
    /\ filtered_accounts # <<>>
    /\ Len(filtered_accounts) < Len(ProductAccounts)
    /\ refiltered = filtered_accounts

\* C9: create_mgmt_session given an environment it has no case for raises an
\* invalid-environment error without calling assume_role; it assumes no
\* default role.
C9_UnknownEnvRaises ==
    \A k \in 1..Len(mgmt_calls) :
        mgmt_calls[k].env \notin {"pro", "dev"} =>
            /\ mgmt_calls[k].raised
            /\ mgmt_calls[k].error = "ValueError"
            /\ mgmt_calls[k].assume_role_calls = 0
            /\ mgmt_session = "none"

\* create_mgmt_session was called for 'poc' and raised
C9_Witness ==
    \E k \in 1..Len(mgmt_calls) :
        /\ mgmt_calls[k].env = "poc"
        /\ mgmt_calls[k].error = "ValueError"

\* C10: a run that got as far as the catalog ends in failure when, and only
\* when, the management credential could not be obtained; accounts that fail
\* leave it a success.
C10_HardFailureIffNoMgmt ==
    (pc = "exit" /\ prod > 0) =>
        (exit_code # 0 <=> \E k \in 1..Len(mgmt_calls) : mgmt_calls[k].raised)

\* product p of the catalog has no account the target environment keeps
NothingToProcess(p) ==
    \A a \in Range(account_lists[p].accounts) :
        \/ target_env = "pro" /\ NonProduction(a)
        \/ target_env \in {"dev", "pre", "poc"} /\ Production(a)

\* C11: a failed create_mgmt_session aborts only the product it was called
\* for: the loop goes on, and the run ends with every product that has
\* accounts to process having had its own management call, the products whose
\* call succeeded having been collected.
C11_LaterProductsProcessed ==
    (pc = "exit" /\ prod > 0) =>
        /\ prod = Len(account_lists) + 1
        /\ \A p \in 1..Len(account_lists) :
              ~NothingToProcess(p) =>
                  \E k \in 1..Len(mgmt_calls) :
                      /\ mgmt_calls[k].product = p
                      /\ ~mgmt_calls[k].raised =>
                            \E j \in 1..Len(report) : report[j].product = p

\* the management call failed for one product and a later product was
\* collected to the end
C11_Witness ==
    \E k \in 1..Len(mgmt_calls) :
        /\ mgmt_calls[k].raised
        /\ \E j \in 1..Len(report) :
              /\ report[j].product > mgmt_calls[k].product
              /\ report[j].futures # <<>>

\* C12: an account whose collection failed (minting refused, or the listing
\* raised) is shown in the product's output with a failure marker, never the
\* way an account with zero records is shown.
C12_FailureMarked ==
    \A k \in 1..Len(report) :
        \A i \in 1..Len(report[k].futures) :
            report[k].futures[i].error # "none" =>
                /\ report[k].futures[i].line.kind = "error"
                /\ report[k].futures[i].line #
                       result_line(report[k].futures[i].account_name, <<>>)

C14_OneSheetPerAccountWithRecords ==
    \A k \in 1..Len(report) :
        LET fs == report[k].futures
            wb == report[k].workbook
            withRecords == {i \in 1..Len(fs) : fs[i].listed # <<>>}
        IN  /\ Len(wb) = Cardinality(withRecords)
            /\ \A i \in withRecords :
                  \E j \in 1..Len(wb) :
                      /\ wb[j].title = fs[i].account_name
                      /\ wb[j].suffix = 0
                      /\ wb[j].rows = fs[i].listed
            /\ \A j \in 1..Len(wb) :
                  \E i \in withRecords : wb[j].title = fs[i].account_name

\* the read-only sessions the tasks fs of product p have been given
MintedReadOnly(p, fs) ==
    {<<"read-only", p, fs[i].account_id>> : i \in
        {i \in 1..Len(fs) :
            \/ fs[i].state = "listing"
            \/ fs[i].state \in {"finished", "consumed"} /\ fs[i].error # "mint"}}

\* every session minted so far: one management session per successful
\* create_mgmt_session, one read-only session per successful
\* create_read_only_session
Minted ==
    {<<"mgmt", mgmt_calls[k].product, "-">> : k \in
        {k \in 1..Len(mgmt_calls) : ~mgmt_calls[k].raised}}
    \cup UNION {MintedReadOnly(report[k].product, report[k].futures) :
                   k \in 1..Len(report)}
    \cup (IF pc \in {"submit", "collect"}
          THEN MintedReadOnly(prod, futures) ELSE {})

\* C15: when the run ends, every credential it minted has been released.
C15_AllCredentialsReleased ==
    pc = "exit" => Minted \subseteq released

\* the products the loop has already left behind
Passed == {p \in 1..Len(account_lists) : p < prod}

\* C16: a product for which the filter keeps no account is skipped without
\* error: no management credential is requested for it, no task is
\* submitted, nothing is written for it, and the loop goes on to the next
\* product and ends normally.
C16_EmptyProductSkipped ==
    /\ \A p \in Passed \cup {q \in {prod} : pc \in {"mgmt", "submit", "collect"}} :
          NothingToProcess(p) =>
              /\ \A k \in 1..Len(mgmt_calls) : mgmt_calls[k].product # p
              /\ \A c \in ro_calls : c[1] # p
              /\ \A k \in 1..Len(report) : report[k].product # p
              /\ \A k \in 1..Len(files) :
                    files[k].filename # account_lists[p].product
    /\ (pc = "exit" /\ prod > 0) =>
          /\ exit_code = 0
          /\ prod = Len(account_lists) + 1

\* 'pro' on the three-product catalog: "ops" has only DEV-ops and was
\* skipped, "search" after it was collected
C16_Witness ==
    /\ target_env = "pro"
    /\ Len(account_lists) = 3
    /\ NothingToProcess(2)
    /\ \A k \in 1..Len(mgmt_calls) : mgmt_calls[k].product # 2
    /\ \E k \in 1..Len(report) : report[k].product = 3

\* C17: an unreadable or malformed catalog is fatal and comes out before
\* any credential work: the run stops with a failure at read_account_lists,
\* and no assume-role call, management or read-only, is made before or after.
C17_BadCatalogFatalBeforeCredentials ==
    ~disk.readable =>
        /\ pc \in {"main", "read", "exit"}
        /\ pc = "exit" => exit_code = 1
        /\ mgmt_calls = <<>>
        /\ ro_calls = {}
        /\ Minted = {}
        /\ account_lists = <<>>

\* a valid environment, the catalog unreadable, the run over
C17_Witness ==
    /\ ~disk.readable
    /\ target_env = "dev"
    /\ pc = "exit"
    /\ exit_code = 1
    /\ mgmt_calls = <<>>

\* C18: under fair scheduling, with every call returning or raising, each
\* product's fan-out ends with all its futures consumed and the loop at the
\* next product, and gather_product_certificates returns.
C18_FanOutTerminates ==
    /\ [](pc = "submit" => <>(pc = "loop" /\ loop_done /\ work_queue = <<>>))
    /\ [](pc \in {"loop", "mgmt", "submit", "collect"} => <>(pc = "exit" /\ exit_code = 0))

\* the run has returned after a fan-out of six accounts over five workers
C18_Witness ==
    /\ pc = "exit"
    /\ exit_code = 0
    /\ \E k \in 1..Len(report) :
          /\ Len(report[k].futures) = 6
          /\ \A i \in 1..6 : report[k].futures[i].state = "consumed"

\* C19: the workbook is written by the main thread only: a step that
\* changes it is either one turn of the result loop, which consumes one
\* finished future and adds its worksheet while no task changes state, or
\* the creation of the next product's workbook when no task is running; a
\* worker's step never changes it.
C19_SingleWriter ==
    [][workbook' # workbook =>
          \/ /\ pc = "collect"
             /\ pc' = "collect"
             /\ Len(workbook') = Len(workbook) + 1
             /\ SubSeq(workbook', 1, Len(workbook)) = workbook
             /\ work_queue' = work_queue
             /\ Len(futures') = Len(futures)
             /\ Cardinality({i \in 1..Len(futures) : futures'[i] # futures[i]}) = 1
             /\ \A i \in 1..Len(futures) :
                   futures'[i] # futures[i] =>
                       /\ futures[i].state = "finished"
                       /\ futures'[i].state = "consumed"
          \/ /\ pc = "mgmt"
             /\ Running = {}
             /\ work_queue = <<>>
             /\ workbook' = <<>>]_vars

\* a worksheet has been written while a sibling task is still running
C19_Witness ==
    /\ pc = "collect"
    /\ workbook # <<>>
    /\ Running # {}

\* C20: with target environment 'pre' or 'poc', which main accepts and the
\* filter handles, create_mgmt_session raises for every product: no
\* read-only credential is minted, no task is submitted and no workbook is
\* written for any product.
C20_PreAndPocCollectNothing ==
    target_env \in {"pre", "poc"} =>
        /\ \A k \in 1..Len(mgmt_calls) : mgmt_calls[k].raised
        /\ mgmt_session = "none"
        /\ ro_calls = {}
        /\ Minted = {}
        /\ futures = <<>>
        /\ work_queue = <<>>
        /\ workbook = <<>>
        /\ files = <<>>
        /\ report = <<>>
        /\ pc \notin {"submit", "collect"}

\* a 'pre' run over three products, two of them with accounts the filter
\* keeps, has ended: both management calls raised and the run reports success
C20_Witness ==
    /\ target_env = "pre"
    /\ pc = "exit"
    /\ exit_code = 0
    /\ Len(account_lists) = 3
    /\ Len(mgmt_calls) >= 2
    /\ \A k \in 1..Len(mgmt_calls) : mgmt_calls[k].error = "ValueError"
    /\ files = <<>>

====
